---- MODULE Spec2Model ----
(***************************************************************************)
(* Model of color_transfer.py: statistics of a reference image in LAB      *)
(* space, adaptive exposure normalisation of the L channel, saturation     *)
(* preserving transfer of the A and B channels, and the batch loop of      *)
(* process_images.                                                         *)
(*                                                                         *)
(* Numbers.  The code works on np.float32 arrays.  A finite value x is     *)
(* modelled by the integer x * Scale (fixed point, rounded down), and the  *)
(* three non-finite IEEE values by the sentinels PosInf, NegInf and NaN.   *)
(* The constant 1e-5 of the chroma step is smaller than 1/Scale, so the    *)
(* denominator it is added to is kept in units of 1/EpsDen.  The damping   *)
(* factor is kept exactly, in units of 1/SafetyDen.                        *)
(*                                                                         *)
(* Images.  cv2.imread followed by the two cv2.cvtColor calls yields a     *)
(* uint8 LAB image; a decodable file is modelled by that LAB image (three  *)
(* channels, each a function from the pixels 1..NPix to 0..255) and a file *)
(* written by cv2.imwrite by the uint8 LAB buffer handed to the inverse    *)
(* conversion.                                                             *)
(***************************************************************************)
EXTENDS Integers, Sequences, FiniteSets, TLC

VARIABLES
    refFile,          \* content of the file at reference_path
    files,            \* content of the file at every target path
    target_paths,     \* the list handed to process_images
    pc,               \* position of process_images
    reference_chars,  \* dict returned by extract_reference_characteristics
    i,                \* 1-based index of the loop at line 198
    outDir,           \* files of the output directory: name -> content
    reads,            \* target paths given to cv2.imread, in call order
    writes,           \* cv2.imwrite calls, in call order
    log,              \* the [OK] / [ERROR] lines printed, in order
    call,             \* arguments of a single function call under test
    ret               \* what that call returned

vars == <<refFile, files, target_paths, pc, reference_chars, i, outDir,
          reads, writes, log, call, ret>>

batchVars == <<refFile, files, target_paths, pc, reference_chars, i, outDir,
               reads, writes, log>>

-----------------------------------------------------------------------------
(* Bounds of the model *)

NPix == 2
MaxTargets == 3

Pixels == 1..NPix

-----------------------------------------------------------------------------
(* Fixed-point arithmetic standing for np.float32 *)

Scale == 10
MaxVal == 255
EpsDen == 100000
SafetyDen == 2 * MaxVal * Scale
SafetyMin == (3 * SafetyDen) \div 10

PosInf == 2000000001
NegInf == 2000000002
NaN == 2000000003

IsFinite(x) == x \notin {PosInf, NegInf, NaN}

Top == MaxVal * Scale

Sign(x) == IF x > 0 THEN 1 ELSE IF x < 0 THEN -1 ELSE 0

\* IEEE x / y on fixed-point values: a zero divisor gives inf or nan
FDiv(x, y) ==
    IF x = NaN \/ y = NaN THEN NaN
    ELSE IF ~IsFinite(x) /\ ~IsFinite(y) THEN NaN
    ELSE IF ~IsFinite(x) THEN (IF (x = PosInf) = (y >= 0) THEN PosInf ELSE NegInf)
    ELSE IF ~IsFinite(y) THEN 0
    ELSE IF y = 0 THEN (IF x = 0 THEN NaN ELSE IF x > 0 THEN PosInf ELSE NegInf)
    ELSE (x * Scale) \div y

\* IEEE x * y: 0 * inf is nan
FMul(x, y) ==
    IF x = NaN \/ y = NaN THEN NaN
    ELSE IF ~IsFinite(x) \/ ~IsFinite(y) THEN
        LET sx == IF x = PosInf THEN 1 ELSE IF x = NegInf THEN -1 ELSE Sign(x)
            sy == IF y = PosInf THEN 1 ELSE IF y = NegInf THEN -1 ELSE Sign(y)
        IN  IF sx * sy = 0 THEN NaN ELSE IF sx * sy > 0 THEN PosInf ELSE NegInf
    ELSE (x * y) \div Scale

\* IEEE x + y
FAdd(x, y) ==
    IF x = NaN \/ y = NaN THEN NaN
    ELSE IF ~IsFinite(x) /\ ~IsFinite(y) THEN (IF x = y THEN x ELSE NaN)
    ELSE IF ~IsFinite(x) THEN x
    ELSE IF ~IsFinite(y) THEN y
    ELSE x + y

\* np.clip(x, lo, hi): nan stays nan
Clip(x, lo, hi) ==
    IF x = NaN THEN NaN
    ELSE IF x = PosInf THEN hi
    ELSE IF x = NegInf THEN lo
    ELSE IF x < lo THEN lo ELSE IF x > hi THEN hi ELSE x

RECURSIVE SumTo(_, _)
SumTo(f, n) == IF n = 0 THEN 0 ELSE f[n] + SumTo(f, n - 1)

\* ndarray.mean() over the pixels of one channel
Mean(ch) == SumTo(ch, NPix) \div NPix

RECURSIVE SqrtSearch(_, _, _)
SqrtSearch(x, lo, hi) ==
    IF lo >= hi THEN lo
    ELSE LET mid == (lo + hi + 1) \div 2
         IN  IF mid * mid <= x THEN SqrtSearch(x, mid, hi)
             ELSE SqrtSearch(x, lo, mid - 1)

\* ndarray.std(): population standard deviation of one channel
Std(ch) ==
    LET m  == Mean(ch)
        sq == [p \in Pixels |-> (ch[p] - m) * (ch[p] - m)]
    IN  SqrtSearch(SumTo(sq, NPix) \div NPix, 0, 2 * Top)

\* uint8 channel -> float32 channel (.astype(np.float32))
ToFloat(ch) == [p \in Pixels |-> ch[p] * Scale]

\* float32 channel in [0,255] -> uint8 channel (.astype(np.uint8))
ToUint8(ch) == [p \in Pixels |-> ch[p] \div Scale]

-----------------------------------------------------------------------------
(* normalize_exposure_luminance *)

\* the damping factor with the lightness normalised by 100 instead of 255
safety_factor_by_100(v) == Clip(SafetyDen - (v * MaxVal) \div 100, SafetyMin, SafetyDen)

\* lines 83-91: 1.0 - (current_l / 255.0) * 0.5, clipped to [0.3, 1.0];
\* the result is in units of 1/SafetyDen
safety_factor(v) == Clip(SafetyDen - v, SafetyMin, SafetyDen)

\* line 86
target_adjustment(current_l, target_l_mean) == target_l_mean - Mean(current_l)

\* line 94: current_l + target_adjustment * safety_factor, per pixel
shifted_l(current_l, target_l_mean) ==
    [p \in Pixels |->
        current_l[p]
          + (target_adjustment(current_l, target_l_mean) * safety_factor(current_l[p]))
              \div SafetyDen]

\* line 98: the condition under which the contrast is rescaled
rescales(current_l) == Std(current_l) > 0

\* lines 98 and 101: the factor target_l_std / current_l_std
contrast_ratio(current_l, target_l_std) == FDiv(target_l_std, Std(current_l))

\* lines 76-104: the L channel the function returns
adjusted_l(current_l, target_l_mean, target_l_std, adaptive) ==
    LET unclipped ==
          IF adaptive THEN
              LET sh == shifted_l(current_l, target_l_mean)
                  m  == Mean(sh)
              IN  IF rescales(current_l)
                  THEN [p \in Pixels |->
                          FAdd(FMul(sh[p] - m, contrast_ratio(current_l, target_l_std)), m)]
                  ELSE sh
          ELSE
              [p \in Pixels |->
                  FAdd(FMul(current_l[p] - Mean(current_l),
                            contrast_ratio(current_l, target_l_std)),
                       target_l_mean)]
    IN  [p \in Pixels |-> Clip(unclipped[p], 0, Top)]

\* the divisors of the divisions the call executes (lines 83, 98, 101)
divisors(current_l, adaptive) ==
    IF adaptive
    THEN {MaxVal * Scale} \cup (IF rescales(current_l) THEN {Std(current_l)} ELSE {})
    ELSE {Std(current_l)}

\* lines 69-108: the image returned, only channel 0 replaced
normalize_exposure_luminance(img_lab, target_l_mean, target_l_std, adaptive) ==
    [img_lab EXCEPT !.L = adjusted_l(img_lab.L, target_l_mean, target_l_std, adaptive)]

-----------------------------------------------------------------------------
(* the chroma step of apply_color_transfer *)

\* line 146
saturation_preservation == (8 * Scale) \div 10

\* lines 142-143: reference std / (current std + 1e-5); the denominator is in
\* units of 1/EpsDen
eps_denominator(current_std) == current_std * (EpsDen \div Scale) + 1

scale_strict(ref_std, current_std) ==
    LET den == eps_denominator(current_std)
    IN  IF den = 0 THEN (IF ref_std = 0 THEN NaN ELSE PosInf)
        ELSE (ref_std * EpsDen) \div den

\* the blend with its two weights exchanged
blend_scale_swapped(strict, preservation) ==
    FAdd(FMul(strict, preservation), FMul(Scale, Scale - preservation))

\* lines 147-148: strict * (1.0 - preservation) + 1.0 * preservation
blend_scale(strict, preservation) ==
    FAdd(FMul(strict, Scale - preservation), FMul(Scale, preservation))

chroma_scale(ref_std, current) ==
    blend_scale(scale_strict(ref_std, Std(current)), saturation_preservation)

\* the assignment without its guard
transfers_always(current) == TRUE

\* lines 151-155: the guard of the assignment
transfers(current) == Std(current) > 0

\* lines 137-159 for one chroma channel
transfer_channel(current, ref_mean, ref_std) ==
    LET moved ==
          IF transfers(current)
          THEN [p \in Pixels |->
                  FAdd(FMul(current[p] - Mean(current), chroma_scale(ref_std, current)),
                       ref_mean)]
          ELSE current
    IN  [p \in Pixels |-> Clip(moved[p], 0, Top)]

\* lines 134-159: the image after the chroma step
chroma_transfer(img_lab, chars) ==
    [img_lab EXCEPT !.A = transfer_channel(img_lab.A, chars.a_mean, chars.a_std),
                    !.B = transfer_channel(img_lab.B, chars.b_mean, chars.b_std)]

-----------------------------------------------------------------------------
(* extract_reference_characteristics and apply_color_transfer on LAB data *)

\* line 35 / line 123: .astype(np.float32) of the uint8 LAB image
lab_float(img) == [L |-> ToFloat(img.L), A |-> ToFloat(img.A), B |-> ToFloat(img.B)]

\* lines 39-52
characteristics(img) ==
    LET lab == lab_float(img)
    IN  [l_mean |-> Mean(lab.L), l_std |-> Std(lab.L),
         a_mean |-> Mean(lab.A), a_std |-> Std(lab.A),
         b_mean |-> Mean(lab.B), b_std |-> Std(lab.B)]

\* lines 123-162: the uint8 LAB buffer that is converted back and written
graded(img, chars) ==
    LET target_lab_normalized ==
          chroma_transfer(
              normalize_exposure_luminance(lab_float(img), chars.l_mean, chars.l_std, TRUE),
              chars)
    IN  [L |-> ToUint8(target_lab_normalized.L),
         A |-> ToUint8(target_lab_normalized.A),
         B |-> ToUint8(target_lab_normalized.B)]

-----------------------------------------------------------------------------
(* The files a run can meet *)

Flat(v) == [p \in Pixels |-> v]
Ramp(lo, hi) == [p \in Pixels |-> IF p = 1 THEN lo ELSE hi]

Gray   == [L |-> Flat(128),     A |-> Flat(128),      B |-> Flat(128)]
Sunset == [L |-> Ramp(100, 220), A |-> Ramp(130, 170), B |-> Ramp(120, 200)]
Forest == [L |-> Ramp(20, 90),   A |-> Flat(110),      B |-> Ramp(125, 150)]

Images == {Gray, Sunset, Forest}

\* a file cv2.imread cannot decode (imread returns None)
Corrupt == [ok |-> FALSE, img |-> Gray]

FileContents == {Corrupt} \cup {[ok |-> TRUE, img |-> im] : im \in Images}

Paths == {[dir |-> "a", stem |-> "x", ext |-> "png"],
          [dir |-> "a", stem |-> "x", ext |-> "jpg"],
          [dir |-> "b", stem |-> "y", ext |-> "png"]}

TargetLists == UNION {[1..n -> Paths] : n \in 0..MaxTargets}

\* the output name keeping the target's extension
output_path_same_ext(target_path) ==
    [dir |-> "output", prefix |-> "processed_", stem |-> target_path.stem,
     ext |-> target_path.ext]

\* line 199-200: os.path.join(output_dir, f"processed_{Path(target_path).stem}.jpg")
output_path(target_path) ==
    [dir |-> "output", prefix |-> "processed_", stem |-> target_path.stem, ext |-> "jpg"]

\* Path(target_path).name
path_name(target_path) == [stem |-> target_path.stem, ext |-> target_path.ext]

NoChars == [none |-> TRUE]
NoCall == [fn |-> "none"]
EmptyDir == [n \in {} |-> Gray]

-----------------------------------------------------------------------------
(* process_images *)

Init ==
    /\ refFile \in FileContents
    /\ files \in [Paths -> FileContents]
    /\ target_paths \in TargetLists
    /\ pc = "start"
    /\ reference_chars = NoChars
    /\ i = 0
    /\ outDir = EmptyDir
    /\ reads = <<>>
    /\ writes = <<>>
    /\ log = <<>>
    /\ call = NoCall
    /\ ret = NoCall

\* the reference failure swallowed, the loop entered all the same
ExtractRaiseSwallowed ==
    /\ pc = "start"
    /\ ~refFile.ok
    /\ reference_chars' = characteristics(refFile.img)
    /\ pc' = "loop"
    /\ i' = 1
    /\ UNCHANGED <<refFile, files, target_paths, outDir, reads, writes, log, call, ret>>

\* lines 27-29 inside line 191: the ValueError leaves process_images
ExtractRaise ==
    /\ pc = "start"
    /\ ~refFile.ok
    /\ pc' = "raised"
    /\ UNCHANGED <<refFile, files, target_paths, reference_chars, i, outDir,
                   reads, writes, log, call, ret>>

\* lines 180-194 with a decodable reference
ExtractReturn ==
    /\ pc = "start"
    /\ refFile.ok
    /\ reference_chars' = characteristics(refFile.img)
    /\ pc' = "loop"
    /\ i' = 1
    /\ UNCHANGED <<refFile, files, target_paths, outDir, reads, writes, log, call, ret>>

\* a failing target ending the loop
TargetRaiseBreak ==
    /\ pc = "loop"
    /\ i <= Len(target_paths)
    /\ ~files[target_paths[i]].ok
    /\ reads' = Append(reads, target_paths[i])
    /\ log' = Append(log, [status |-> "ERROR", name |-> path_name(target_paths[i])])
    /\ i' = Len(target_paths) + 1
    /\ UNCHANGED <<refFile, files, target_paths, pc, reference_chars, outDir,
                   writes, call, ret>>

\* lines 198-205, apply_color_transfer raising at line 117
TargetRaise ==
    /\ pc = "loop"
    /\ i <= Len(target_paths)
    /\ ~files[target_paths[i]].ok
    /\ reads' = Append(reads, target_paths[i])
    /\ log' = Append(log, [status |-> "ERROR", name |-> path_name(target_paths[i])])
    /\ i' = i + 1
    /\ UNCHANGED <<refFile, files, target_paths, pc, reference_chars, outDir,
                   writes, call, ret>>

\* a processed target folding its own statistics into reference_chars
TargetDoneUpdatesChars ==
    /\ pc = "loop"
    /\ i <= Len(target_paths)
    /\ files[target_paths[i]].ok
    /\ LET out  == output_path(target_paths[i])
           data == graded(files[target_paths[i]].img, reference_chars)
       IN  /\ reads' = Append(reads, target_paths[i])
           /\ writes' = Append(writes, [path |-> out, data |-> data])
           /\ outDir' = (out :> data) @@ outDir
    /\ log' = Append(log, [status |-> "OK", name |-> path_name(target_paths[i])])
    /\ i' = i + 1
    /\ reference_chars' = characteristics(files[target_paths[i]].img)
    /\ UNCHANGED <<refFile, files, target_paths, pc, call, ret>>

\* lines 198-203, apply_color_transfer running to line 167
TargetDone ==
    /\ pc = "loop"
    /\ i <= Len(target_paths)
    /\ files[target_paths[i]].ok
    /\ LET out  == output_path(target_paths[i])
           data == graded(files[target_paths[i]].img, reference_chars)
       IN  /\ reads' = Append(reads, target_paths[i])
           /\ writes' = Append(writes, [path |-> out, data |-> data])
           /\ outDir' = (out :> data) @@ outDir
    /\ log' = Append(log, [status |-> "OK", name |-> path_name(target_paths[i])])
    /\ i' = i + 1
    /\ UNCHANGED <<refFile, files, target_paths, pc, reference_chars, call, ret>>

\* lines 207-210: the loop is exhausted
Finish ==
    /\ pc = "loop"
    /\ i > Len(target_paths)
    /\ pc' = "done"
    /\ UNCHANGED <<refFile, files, target_paths, reference_chars, i, outDir,
                   reads, writes, log, call, ret>>

Next == ExtractRaise \/ ExtractReturn \/ TargetRaise \/ TargetDone \/ Finish

Spec == Init /\ [][Next]_vars

-----------------------------------------------------------------------------
(* Single calls of normalize_exposure_luminance and of the chroma step *)

Levels == {0, 100, 200, 255}
Channels == [Pixels -> Levels]

RefMeans == {0, 150 * Scale, MaxVal * Scale}
RefStds == {0, 40 * Scale, 127 * Scale}

RefChars ==
    {characteristics(im) : im \in Images}
      \cup {[l_mean |-> 150 * Scale, l_std |-> 40 * Scale,
             a_mean |-> 140 * Scale, a_std |-> 10 * Scale,
             b_mean |-> 160 * Scale, b_std |-> 15 * Scale],
            [l_mean |-> 0, l_std |-> 0,
             a_mean |-> MaxVal * Scale, a_std |-> 127 * Scale,
             b_mean |-> 0, b_std |-> 127 * Scale]}

NormalizeCalls ==
    [fn : {"normalize"},
     img_lab : {lab_float([L |-> l, A |-> Flat(128), B |-> Flat(128)]) : l \in Channels},
     target_l_mean : RefMeans, target_l_std : RefStds, adaptive : BOOLEAN]

ChromaCalls ==
    [fn : {"chroma"},
     img_lab : {lab_float([L |-> Flat(128), A |-> a, B |-> b]) : a \in Channels, b \in Channels},
     chars : RefChars]

BlendCalls ==
    [fn : {"blend"}, ref_std : RefStds, current_std : {0, 5, 50 * Scale, 127 * Scale},
     preservation : {0, saturation_preservation, Scale}]

InitFn ==
    /\ refFile = Corrupt
    /\ files = [p \in Paths |-> Corrupt]
    /\ target_paths = <<>>
    /\ pc = "idle"
    /\ reference_chars = NoChars
    /\ i = 0
    /\ outDir = EmptyDir
    /\ reads = <<>>
    /\ writes = <<>>
    /\ log = <<>>
    /\ call \in NormalizeCalls \cup ChromaCalls \cup BlendCalls
    /\ ret = NoCall

CallNormalize ==
    /\ call.fn = "normalize"
    /\ ret = NoCall
    /\ ret' = [fn |-> "normalize",
               img |-> normalize_exposure_luminance(call.img_lab, call.target_l_mean,
                                                    call.target_l_std, call.adaptive),
               divisors |-> divisors(call.img_lab.L, call.adaptive)]
    /\ UNCHANGED <<batchVars, call>>

CallChroma ==
    /\ call.fn = "chroma"
    /\ ret = NoCall
    /\ ret' = [fn |-> "chroma",
               img |-> chroma_transfer(call.img_lab, call.chars),
               a_scale |-> chroma_scale(call.chars.a_std, call.img_lab.A),
               b_scale |-> chroma_scale(call.chars.b_std, call.img_lab.B),
               divisors |-> {eps_denominator(Std(call.img_lab.A)),
                             eps_denominator(Std(call.img_lab.B))}]
    /\ UNCHANGED <<batchVars, call>>

\* lines 142-148 as a function of the value bound at line 146
CallBlend ==
    /\ call.fn = "blend"
    /\ ret = NoCall
    /\ ret' = [fn |-> "blend",
               strict |-> scale_strict(call.ref_std, call.current_std),
               scale |-> blend_scale(scale_strict(call.ref_std, call.current_std),
                                     call.preservation)]
    /\ UNCHANGED <<batchVars, call>>

NextFn == CallNormalize \/ CallChroma \/ CallBlend

SpecFn == InitFn /\ [][NextFn]_vars

-----------------------------------------------------------------------------
(* The damping factor of lines 83-91 on every pair of lightness values *)

SafetyCalls == [fn : {"safety"}, n1 : 0..MaxVal, n2 : 0..MaxVal]

InitSafety ==
    /\ refFile = Corrupt
    /\ files = [p \in Paths |-> Corrupt]
    /\ target_paths = <<>>
    /\ pc = "idle"
    /\ reference_chars = NoChars
    /\ i = 0
    /\ outDir = EmptyDir
    /\ reads = <<>>
    /\ writes = <<>>
    /\ log = <<>>
    /\ call \in SafetyCalls
    /\ ret = NoCall

CallSafety ==
    /\ call.fn = "safety"
    /\ ret = NoCall
    /\ ret' = [fn |-> "safety",
               s1 |-> safety_factor(call.n1 * Scale),
               s2 |-> safety_factor(call.n2 * Scale)]
    /\ UNCHANGED <<batchVars, call>>

NextSafety == CallSafety

SpecSafety == InitSafety /\ [][NextSafety]_vars

-----------------------------------------------------------------------------
(* Properties *)

Decodable(path) == files[path].ok

\* the decodable targets among the first n of the list, in list order
OkTargets(n) == SelectSeq(SubSeq(target_paths, 1, n), LAMBDA path : Decodable(path))

Undecodable == {k \in 1..Len(target_paths) : ~Decodable(target_paths[k])}

InRange(ch) == \A p \in Pixels : IsFinite(ch[p]) /\ 0 <= ch[p] /\ ch[p] <= MaxVal * Scale

\* C1: a finished run whose only undecodable target is target k has read
\* every target in list order, has written one output for each of the other
\* targets, in list order, and has reported one failure, at position k
BatchResilience ==
    (pc = "done" /\ Cardinality(Undecodable) = 1) =>
        LET k == CHOOSE u \in Undecodable : TRUE
        IN  /\ reads = target_paths
            /\ Len(log) = Len(target_paths)
            /\ \A j \in 1..Len(log) :
                  /\ log[j].status = (IF j = k THEN "ERROR" ELSE "OK")
                  /\ log[j].name = path_name(target_paths[j])
            /\ Len(writes) = Len(target_paths) - 1
            /\ \A j \in 1..Len(writes) :
                  /\ writes[j].path = output_path(OkTargets(Len(target_paths))[j])
                  /\ writes[j].path \in DOMAIN outDir
            /\ \A j \in 1..Len(target_paths) :
                  j # k => output_path(target_paths[j]) \in DOMAIN outDir

BatchResilienceWitness ==
    /\ pc = "done"
    /\ Len(target_paths) = 3
    /\ Undecodable = {2}
    /\ Len(writes) = 2

\* C2: with an undecodable reference the run ends in the raised error and no
\* target is ever read, transformed, written or reported
ReferenceFailureFatal ==
    ~refFile.ok =>
        /\ pc \in {"start", "raised"}
        /\ reference_chars = NoChars
        /\ reads = <<>>
        /\ writes = <<>>
        /\ log = <<>>
        /\ outDir = EmptyDir

ReferenceFailureFatalWitness ==
    /\ pc = "raised"
    /\ ~refFile.ok
    /\ Len(target_paths) = 2
    /\ \A j \in 1..2 : Decodable(target_paths[j])

\* C3: every lightness value returned by normalize_exposure_luminance, in
\* either mode, and every chroma value after the chroma step lies in [0,255]
RangeInvariant ==
    /\ ret.fn = "normalize" => InRange(ret.img.L)
    /\ ret.fn = "chroma" => InRange(ret.img.A) /\ InRange(ret.img.B)

\* C4: on a flat lightness channel normalize_exposure_luminance divides by no
\* zero and returns finite values in either mode, and a flat chroma channel
\* causes no division by zero in the chroma step
FlatChannelSafety ==
    /\ (ret.fn = "normalize" /\ Std(call.img_lab.L) = 0) =>
          /\ 0 \notin ret.divisors
          /\ \A p \in Pixels : IsFinite(ret.img.L[p])
    /\ (ret.fn = "chroma" /\ (Std(call.img_lab.A) = 0 \/ Std(call.img_lab.B) = 0)) =>
          /\ 0 \notin ret.divisors
          /\ \A p \in Pixels : IsFinite(ret.img.A[p]) /\ IsFinite(ret.img.B[p])

FlatChromaUnchanged ==
    ret.fn = "chroma" =>
        LET Expected(ch, scale, ref_mean) ==
              IF Std(ch) = 0 THEN ch
              ELSE [p \in Pixels |->
                      Clip(((ch[p] - Mean(ch)) * scale) \div Scale + ref_mean,
                           0, MaxVal * Scale)]
        IN  /\ ret.img.A = Expected(call.img_lab.A, ret.a_scale, call.chars.a_mean)
            /\ ret.img.B = Expected(call.img_lab.B, ret.b_scale, call.chars.b_mean)

FlatChromaUnchangedWitness ==
    /\ ret.fn = "chroma"
    /\ Std(call.img_lab.A) = 0
    /\ call.chars.a_mean # call.img_lab.A[1]
    /\ call.chars.a_std > 0
    /\ ret.img.A = call.img_lab.A
    /\ Std(call.img_lab.B) > 0
    /\ ret.img.B # call.img_lab.B

DistinctPaths == \A j, k \in 1..Len(target_paths) :
                    j # k => target_paths[j] # target_paths[k]

DistinctStems == \A j, k \in 1..Len(target_paths) :
                    j # k => target_paths[j].stem # target_paths[k].stem

AllDecodable == \A j \in 1..Len(target_paths) : Decodable(target_paths[j])

\* every target's output is in the directory under processed_<stem>.jpg, holds
\* that target's result, and the directory holds one file per target
OutputsInPlace ==
    /\ Cardinality(DOMAIN outDir) = Len(target_paths)
    /\ \A j \in 1..Len(target_paths) :
          LET out == [dir |-> "output", prefix |-> "processed_",
                      stem |-> target_paths[j].stem, ext |-> "jpg"]
          IN  /\ writes[j].path = out
              /\ out \in DOMAIN outDir
              /\ outDir[out] = writes[j].data

\* C8 as stated: after a run over distinct decodable target paths the output
\* directory holds one file per target, named processed_<stem>.jpg, none
\* overwritten by another target
OneFilePerTargetPath ==
    (pc = "done" /\ DistinctPaths /\ AllDecodable) => OutputsInPlace

\* C8 as amended: the same for decodable targets whose stems are pairwise
\* distinct
OneFilePerTargetStem ==
    (pc = "done" /\ DistinctStems /\ AllDecodable) => OutputsInPlace

OneFilePerTargetStemWitness ==
    /\ pc = "done"
    /\ Len(target_paths) = 2
    /\ DistinctStems
    /\ AllDecodable
    /\ Cardinality(DOMAIN outDir) = 2

\* C9: in adaptive mode the shifted channel is re-centred on its own mean and
\* rescaled by targetStd / newStd, newStd being the standard deviation of the
\* shifted channel, and the rescale is skipped exactly when newStd is 0
ContrastUsesShiftedStd ==
    (ret.fn = "normalize" /\ call.adaptive) =>
        LET sh     == shifted_l(call.img_lab.L, call.target_l_mean)
            newStd == Std(sh)
            m      == Mean(sh)
        IN  ret.img.L =
              [p \in Pixels |->
                  Clip(IF newStd = 0 THEN sh[p]
                       ELSE ((sh[p] - m) * ((call.target_l_std * Scale) \div newStd))
                               \div Scale + m,
                       0, MaxVal * Scale)]

\* C10: while targets are processed the statistics stay those computed from
\* the reference, and every output written is the result for its own target's
\* image under those statistics, whatever was processed before it
TargetIndependence ==
    pc \in {"loop", "done"} =>
        /\ reference_chars = characteristics(refFile.img)
        /\ Len(writes) = Len(OkTargets(i - 1))
        /\ \A j \in 1..Len(writes) :
              writes[j].data = graded(files[OkTargets(i - 1)[j]].img,
                                      characteristics(refFile.img))

TargetIndependenceWitness ==
    /\ pc = "done"
    /\ Len(target_paths) = 3
    /\ target_paths[1] = target_paths[3]
    /\ Undecodable = {2}
    /\ Len(writes) = 2
    /\ writes[1].data = writes[2].data
    /\ files[target_paths[1]].img # refFile.img

====
